---- MODULE Spec2Model ----
(***************************************************************************)
(* Invoicing backend: routes/invoiceRoutes.js (CRUD over invoices, the     *)
(* monetary calculator, the sequence number generator, the PDF delivery    *)
(* controller) and utils/pdfGenerator.js (generateInvoicePDF).             *)
(*                                                                         *)
(* The module holds these specifications:                                   *)
(*   SpecCalc  - calculateInvoiceTotals applied to bounded request bodies   *)
(*   SpecStore - interleaved create / update / delete requests             *)
(*   SpecPdf   - one GET /:id/pdf request racing render and timer          *)
(*   SpecPdfLive - SpecPdf with the fairness of the render's own steps     *)
(*   SpecClassify - the error classification applied to bounded texts      *)
(*                                                                         *)
(* JavaScript values are records [t, v, s]: t is the type tag, v the       *)
(* numeric value in units of 1/Scale, s the text of a string.  Amounts are *)
(* exact fixed-point numbers (multiples of 0.1, so that 19% is exact)  .   *)
(* Accented letters of the source's messages are written unaccented.       *)
(***************************************************************************)
EXTENDS Integers, Sequences, FiniteSets, TLC

\* ------------------------------------------------------------ bounds
\* units per currency unit: 0.001 is the smallest amount represented
Scale == 10 * 10 * 10
\* longest item list of a request body in SpecCalc
MaxItems == 2
\* creation requests begun in one run of SpecStore
MaxCreates == 2
\* update requests in one run of SpecStore
MaxUpdates == 1
\* delete requests in one run of SpecStore
MaxDeletes == 1
\* fragments in one error text of SpecClassify
MaxWords == 2

\* ------------------------------------------------------------ JS values
Undef == [t |-> "undefined", v |-> 0, s |-> ""]
Null == [t |-> "null", v |-> 0, s |-> ""]
NaN == [t |-> "NaN", v |-> 0, s |-> ""]
Num(n) == [t |-> "number", v |-> n, s |-> ""]
Str(x) == [t |-> "string", v |-> 0, s |-> x]

\* a property read: obj.k is undefined when the key is absent
Field(obj, k) == IF k \in DOMAIN obj THEN obj[k] ELSE Undef

\* ToBoolean: undefined, null, NaN, 0 and "" are falsy
Truthy(x) ==
  CASE x.t = "number" -> x.v # 0
    [] x.t = "string" -> x.s # ""
    [] OTHER -> FALSE

\* a || b
JsOr(a, b) == IF Truthy(a) THEN a ELSE b

Digits == "0123456789"
IsDigit(c) == \E i \in 1..10 : SubSeq(Digits, i, i) = c
DigitVal(c) == (CHOOSE i \in 1..10 : SubSeq(Digits, i, i) = c) - 1
DigitChar(d) == SubSeq(Digits, d + 1, d + 1)
CharAt(x, i) == SubSeq(x, i, i)
AllDigits(x) == \A i \in 1..Len(x) : IsDigit(CharAt(x, i))

RECURSIVE NatToStr(_)
\* Number.prototype.toString of a non-negative integer
NatToStr(n) == IF n < 10 THEN DigitChar(n) ELSE NatToStr(n \div 10) \o DigitChar(n % 10)

RECURSIVE DigitsToNat(_)
\* the value of a (possibly empty) run of decimal digits
DigitsToNat(x) ==
  IF Len(x) = 0 THEN 0
  ELSE 10 * DigitsToNat(SubSeq(x, 1, Len(x) - 1)) + DigitVal(CharAt(x, Len(x)))

RECURSIVE FracToStr(_, _)
\* the fractional digits of f/Scale, f < Scale, without trailing zeros
FracToStr(f, w) ==
  IF f = 0 THEN ""
  ELSE DigitChar(f \div w) \o FracToStr(f % w, w \div 10)

\* ToString of a number held in units of 1/Scale
NumToStr(v) ==
  LET a == IF v < 0 THEN 0 - v ELSE v
      ip == NatToStr(a \div Scale)
      fp == FracToStr(a % Scale, Scale \div 10)
  IN  (IF v < 0 THEN "-" ELSE "") \o ip \o (IF fp = "" THEN "" ELSE "." \o fp)

\* ToString
JsToString(x) ==
  CASE x.t = "string" -> x.s
    [] x.t = "number" -> NumToStr(x.v)
    [] x.t = "NaN" -> "NaN"
    [] x.t = "null" -> "null"
    [] OTHER -> "undefined"

RECURSIVE FracToUnits(_, _)
\* the value in units of the fractional digits x (digits past 1/Scale are dropped)
FracToUnits(x, w) ==
  IF Len(x) = 0 \/ w = 0 THEN 0
  ELSE DigitVal(CharAt(x, 1)) * w + FracToUnits(SubSeq(x, 2, Len(x)), w \div 10)

\* position of the first "." of x, or 0
DotPos(x) ==
  IF \E i \in 1..Len(x) : CharAt(x, i) = "."
  THEN CHOOSE i \in 1..Len(x) : CharAt(x, i) = "." /\ \A j \in 1..(i - 1) : CharAt(x, j) # "."
  ELSE 0

\* StringToNumber of an unsigned decimal literal: digits, digits.digits, .digits
UnsignedToNumber(x) ==
  LET d == DotPos(x)
      ip == IF d = 0 THEN x ELSE SubSeq(x, 1, d - 1)
      fp == IF d = 0 THEN "" ELSE SubSeq(x, d + 1, Len(x))
  IN  IF Len(ip) + Len(fp) > 0 /\ AllDigits(ip) /\ AllDigits(fp)
      THEN Num(DigitsToNat(ip) * Scale + FracToUnits(fp, Scale \div 10))
      ELSE NaN

\* ToNumber of a string: "" is 0, a decimal literal its value, anything else NaN
StrToNumber(x) ==
  IF x = "" THEN Num(0)
  ELSE IF CharAt(x, 1) = "-"
       THEN LET u == UnsignedToNumber(SubSeq(x, 2, Len(x)))
            IN  IF u.t = "number" THEN Num(0 - u.v) ELSE NaN
  ELSE IF CharAt(x, 1) = "+" THEN UnsignedToNumber(SubSeq(x, 2, Len(x)))
  ELSE UnsignedToNumber(x)

\* ToNumber
JsToNumber(x) ==
  CASE x.t = "number" -> x
    [] x.t = "null" -> Num(0)
    [] x.t = "string" -> StrToNumber(x.s)
    [] OTHER -> NaN

\* a + b: string concatenation as soon as one operand is a string
JsAdd(a, b) ==
  IF a.t = "string" \/ b.t = "string"
  THEN Str(JsToString(a) \o JsToString(b))
  ELSE LET x == JsToNumber(a)
           y == JsToNumber(b)
       IN  IF x.t = "number" /\ y.t = "number" THEN Num(x.v + y.v) ELSE NaN

\* a - b
JsSub(a, b) ==
  LET x == JsToNumber(a)
      y == JsToNumber(b)
  IN  IF x.t = "number" /\ y.t = "number" THEN Num(x.v - y.v) ELSE NaN

\* a * b
JsMul(a, b) ==
  LET x == JsToNumber(a)
      y == JsToNumber(b)
  IN  IF x.t = "number" /\ y.t = "number"
      THEN Num((x.v \div Scale) * y.v + ((x.v % Scale) * y.v) \div Scale)
      ELSE NaN

\* ------------------------------------------------------------ calculator
\* 0.19, the TVA rate, in units
TvaRate == 190
\* 0.1, the default timbre, in units
DefaultTimbre == 100

RECURSIVE ReduceItems(_, _)
\* items.reduce((sum, item) => sum + (item.totalPrice || 0), 0), left to right
ReduceItems(items, sum) ==
  IF Len(items) = 0 THEN sum
  ELSE ReduceItems(Tail(items), JsAdd(sum, JsOr(Field(Head(items), "totalPrice"), Num(0))))

NoResult == [ok |-> FALSE, totals |-> << >>]

\* calculateInvoiceTotals: throws (ok = FALSE) when invoiceData.items is absent
calculateInvoiceTotals(invoiceData) ==
  IF "items" \notin DOMAIN invoiceData
  THEN NoResult
  ELSE LET totalHT == ReduceItems(invoiceData.items, Num(0))
           totalTVA == JsMul(totalHT, Num(TvaRate))
           timbre == JsOr(Field(invoiceData, "timbre"), Num(DefaultTimbre))
           totalRemise == JsOr(Field(invoiceData, "totalRemise"), Num(0))
           totalTTC == JsSub(JsAdd(JsAdd(totalHT, totalTVA), timbre), totalRemise)
       IN  [ok |-> TRUE,
            totals |-> [totalHT |-> totalHT, totalTVA |-> totalTVA, timbre |-> timbre,
                        totalRemise |-> totalRemise, totalTTC |-> totalTTC]]

\* ------------------------------------------------------------ sequence numbers
\* s.includes(sub) at position i
MatchAt(x, sub, i) == i >= 1 /\ i + Len(sub) - 1 <= Len(x) /\ SubSeq(x, i, i + Len(sub) - 1) = sub

\* s.indexOf(sub) + 1, or 0 when sub does not occur in s
IndexOf(x, sub) ==
  IF \E i \in 1..Len(x) : MatchAt(x, sub, i)
  THEN CHOOSE i \in 1..Len(x) : MatchAt(x, sub, i) /\ \A j \in 1..(i - 1) : ~MatchAt(x, sub, j)
  ELSE 0

\* s.includes(sub), sub non-empty
Includes(x, sub) == IndexOf(x, sub) # 0

\* s.split(sep)[1]: the text between the first and the second occurrence of sep,
\* undefined when sep does not occur
SplitSecond(x, sep) ==
  LET i == IndexOf(x, sep)
      rest == SubSeq(x, i + Len(sep), Len(x))
      j == IndexOf(rest, sep)
  IN  IF i = 0 THEN Undef
      ELSE IF j = 0 THEN Str(rest)
      ELSE Str(SubSeq(rest, 1, j - 1))

RECURSIVE SkipSpaces(_)
SkipSpaces(x) == IF Len(x) > 0 /\ CharAt(x, 1) = " " THEN SkipSpaces(SubSeq(x, 2, Len(x))) ELSE x

RECURSIVE DigitPrefix(_)
\* the longest prefix of x made of decimal digits
DigitPrefix(x) ==
  IF Len(x) > 0 /\ IsDigit(CharAt(x, 1))
  THEN CharAt(x, 1) \o DigitPrefix(SubSeq(x, 2, Len(x)))
  ELSE ""

\* parseInt(x) in radix 10: leading blanks, a sign, then the longest run of digits;
\* NaN when no digit follows (parseInt(undefined) parses the text "undefined")
parseInt(x) ==
  LET t == SkipSpaces(JsToString(x))
      neg == Len(t) > 0 /\ CharAt(t, 1) = "-"
      u == IF Len(t) > 0 /\ CharAt(t, 1) \in {"-", "+"} THEN SubSeq(t, 2, Len(t)) ELSE t
      d == DigitPrefix(u)
  IN  IF d = "" THEN NaN
      ELSE Num((IF neg THEN 0 - 1 ELSE 1) * DigitsToNat(d) * Scale)

RECURSIVE padStart(_, _, _)
\* s.padStart(n, c) for a one-character c
padStart(x, n, c) == IF Len(x) >= n THEN x ELSE padStart(c \o x, n, c)

\* width of the zero padding
PadWidth == 3

\* no document: what findOne and findById answer when nothing matches
NoInvoice == << >>

\* faulty variant of NextInvoiceNumber: the number is cut to its last PadWidth
\* characters (a fixed-width field)
NextInvoiceNumberFixedWidth(lastInvoice) ==
  LET nextNumber ==
        IF lastInvoice = NoInvoice THEN Num(Scale)
        ELSE JsAdd(parseInt(SplitSecond(lastInvoice.invoiceNumber.s, "BCC")), Num(Scale))
      padded == padStart(JsToString(nextNumber), PadWidth, "0")
  IN  Str("BCC" \o SubSeq(padded, Len(padded) - PadWidth + 1, Len(padded)))

\* the invoiceNumber a creation computes from the lastInvoice it read
NextInvoiceNumber(lastInvoice) ==
  LET nextNumber ==
        IF lastInvoice = NoInvoice THEN Num(Scale)
        ELSE JsAdd(parseInt(SplitSecond(lastInvoice.invoiceNumber.s, "BCC")), Num(Scale))
  IN  Str("BCC" \o padStart(JsToString(nextNumber), PadWidth, "0"))

\* { ...a, ...b }
Merge(a, b) == [k \in (DOMAIN a) \cup (DOMAIN b) |-> IF k \in DOMAIN b THEN b[k] ELSE a[k]]

TotalKeys == {"totalHT", "totalTVA", "timbre", "totalRemise", "totalTTC"}

\* faulty variant of CreateDoc: the body spread last,
\* { invoiceNumber, ...calculatedTotals, ...req.body }
CreateDocBodyWins(body, invoiceNumber, calculatedTotals) ==
  Merge(Merge([invoiceNumber |-> invoiceNumber], calculatedTotals), body)

\* new Invoice({ ...req.body, invoiceNumber, ...calculatedTotals })
CreateDoc(body, invoiceNumber, calculatedTotals) ==
  Merge(Merge(body, [invoiceNumber |-> invoiceNumber]), calculatedTotals)

\* faulty variant of UpdatePatch: the spread order reversed,
\* { ...calculatedTotals, ...req.body }
UpdatePatchBodyWins(body, calculatedTotals) == Merge(calculatedTotals, body)

\* the update document { ...req.body, ...calculatedTotals }
UpdatePatch(body, calculatedTotals) == Merge(body, calculatedTotals)

\* ------------------------------------------------------------ the store
VARIABLES calcIn, calcOut, errText, errClass, store, reqs, issued, lastOp, hist,
          pdfPc, pdfId, pdfInvoice, responses, storeReads, escaped, timer, render, browser,
          warned, pdfTrace
calcVars == <<calcIn, calcOut, errText, errClass>>
storeVars == <<store, reqs, issued, lastOp, hist>>
pdfVars == <<pdfPc, pdfId, pdfInvoice, responses, storeReads, escaped, timer, render, browser,
             warned, pdfTrace>>
vars == <<calcIn, calcOut, errText, errClass, store, reqs, issued, lastOp, hist,
          pdfPc, pdfId, pdfInvoice, responses, storeReads, escaped, timer, render, browser,
          warned, pdfTrace>>

\* the 24-hex identifier the store gives its n-th document
MkId(n) == "00000000000000000000000" \o NatToStr(n)

\* positions of store holding the document with identifier id
Positions(id) == {i \in 1..Len(store) : store[i]["_id"] = id}
\* Invoice.findById(id): the document, or NoInvoice
findById(id) == IF Positions(id) = {} THEN NoInvoice ELSE store[CHOOSE i \in Positions(id) : TRUE]
\* Invoice.findOne().sort({ createdAt: -1 }): store is kept in creation order
findLatest == IF Len(store) = 0 THEN NoInvoice ELSE store[Len(store)]
\* the document findByIdAndUpdate leaves in the store: the fields of patch are set,
\* the other fields are kept
updateById(doc, patch) == Merge(doc, patch)
\* the store without position i
RemoveAt(st, i) == SubSeq(st, 1, i - 1) \o SubSeq(st, i + 1, Len(st))

\* concurrent clients issuing creation requests
Reqs == {"r1", "r2"}
Idle == [pc |-> "idle", body |-> << >>, doc |-> NoInvoice, lastInvoice |-> NoInvoice]

Item(p) == [totalPrice |-> Num(p)]
\* bodies of POST /
CreateBodies ==
  { [items |-> <<Item(1500)>>],
    [items |-> <<Item(10000), << >> >>, invoiceNumber |-> Str("BCC777"),
     totalHT |-> Num(999000), timbre |-> Num(600)],
    [clientName |-> Str("A")] }
\* bodies of PUT /:id
UpdateBodies ==
  { [items |-> <<Item(10000)>>, totalHT |-> Num(999000), totalTVA |-> Num(1),
     timbre |-> Num(0), totalRemise |-> Num(2000), totalTTC |-> Num(5)],
    [items |-> <<Item(1500), Item(1500)>>, invoiceNumber |-> Str("BCC999")],
    [items |-> << >>, invoiceNumber |-> Str("XYZ")],
    [clientName |-> Str("B")] }
\* identifiers of PUT and DELETE requests: those the store can hold, and one it never holds
KnownIds == {MkId(n) : n \in 1..MaxCreates}
RequestIds == KnownIds \cup {"ffffffffffffffffffffffff"}

NoOp == [kind |-> "none", id |-> "", req |-> << >>, body |-> << >>, status |-> 0, before |-> NoInvoice]

NoHist == [overlap |-> FALSE, creates |-> 0, updates |-> 0, deletes |-> 0, ids |-> 0]
NoCalcIn == [items |-> << >>]

InFlight == {r \in Reqs : reqs[r].pc = "saving"}

\* POST /, up to the call of invoice.save(): reads the latest invoice, computes the
\* number and the totals; a body without items makes calculateInvoiceTotals throw and
\* the error goes to next (500), nothing is saved
CreateRead(r, body) ==
  /\ reqs[r].pc = "idle"
  /\ hist.creates < MaxCreates
  /\ LET lastInvoice == findLatest
         invoiceNumber == NextInvoiceNumber(lastInvoice)
         calculatedTotals == calculateInvoiceTotals(body)
     IN  IF calculatedTotals.ok
         THEN /\ reqs' = [reqs EXCEPT ![r] =
                   [pc |-> "saving", body |-> body, lastInvoice |-> lastInvoice,
                    doc |-> CreateDoc(body, invoiceNumber, calculatedTotals.totals)]]
              /\ lastOp' = [kind |-> "createRead", id |-> "", req |-> << >>, body |-> body, status |-> 0,
                            before |-> lastInvoice]
         ELSE /\ reqs' = reqs
              /\ lastOp' = [kind |-> "createRead", id |-> "", req |-> << >>, body |-> body, status |-> 500,
                            before |-> lastInvoice]
  /\ hist' = [hist EXCEPT !.creates = @ + 1, !.overlap = @ \/ InFlight # {}]
  /\ UNCHANGED <<store, issued, calcVars, pdfVars>>

\* invoice.save() and res.status(201).json(savedInvoice)
CreateSave(r) ==
  /\ reqs[r].pc = "saving"
  /\ LET id == MkId(hist.ids + 1)
         saved == Merge(reqs[r].doc, [_id |-> id])
     IN  /\ store' = Append(store, saved)
         /\ issued' = Append(issued, saved.invoiceNumber)
         /\ lastOp' = [kind |-> "create", id |-> id, req |-> reqs[r].body, body |-> reqs[r].doc, status |-> 201,
                       before |-> reqs[r].lastInvoice]
  /\ reqs' = [reqs EXCEPT ![r] = Idle]
  /\ hist' = [hist EXCEPT !.ids = @ + 1]
  /\ UNCHANGED <<calcVars, pdfVars>>

\* PUT /:id
Update(id, body) ==
  /\ hist.updates < MaxUpdates
  /\ LET calculatedTotals == calculateInvoiceTotals(body)
         old == findById(id)
     IN  IF ~calculatedTotals.ok
         THEN /\ store' = store
              /\ lastOp' = [kind |-> "update", id |-> id, req |-> << >>, body |-> body, status |-> 500,
                            before |-> old]
         ELSE IF old = NoInvoice
         THEN /\ store' = store
              /\ lastOp' = [kind |-> "update", id |-> id, req |-> << >>, body |-> body, status |-> 404,
                            before |-> old]
         ELSE /\ store' = [i \in 1..Len(store) |->
                            IF i \in Positions(id)
                            THEN updateById(store[i], UpdatePatch(body, calculatedTotals.totals))
                            ELSE store[i]]
              /\ lastOp' = [kind |-> "update", id |-> id, req |-> << >>, body |-> body, status |-> 200,
                            before |-> old]
  /\ hist' = [hist EXCEPT !.updates = @ + 1, !.overlap = @ \/ InFlight # {}]
  /\ UNCHANGED <<reqs, issued, calcVars, pdfVars>>

\* DELETE /:id
Delete(id) ==
  /\ hist.deletes < MaxDeletes
  /\ LET old == findById(id)
     IN  IF old = NoInvoice
         THEN /\ store' = store
              /\ lastOp' = [kind |-> "delete", id |-> id, req |-> << >>, body |-> << >>, status |-> 404,
                            before |-> old]
         ELSE /\ store' = RemoveAt(store, CHOOSE i \in Positions(id) : TRUE)
              /\ lastOp' = [kind |-> "delete", id |-> id, req |-> << >>, body |-> << >>, status |-> 200,
                            before |-> old]
  /\ hist' = [hist EXCEPT !.deletes = @ + 1, !.overlap = @ \/ InFlight # {}]
  /\ UNCHANGED <<reqs, issued, calcVars, pdfVars>>

\* ------------------------------------------------------------ PDF delivery
HexChars == "0123456789abcdefABCDEF"
IsHexChar(c) == \E i \in 1..Len(HexChars) : CharAt(HexChars, i) = c
\* length of a store identifier
IdLength == 24
\* faulty variant of IsObjectId: the pattern without its anchors, /[0-9a-fA-F]{24}/
IsObjectIdUnanchored(id) ==
  \E i \in 1..Len(id) :
     /\ i + IdLength - 1 <= Len(id)
     /\ \A j \in i..(i + IdLength - 1) : IsHexChar(CharAt(id, j))

\* req.params.id.match(/^[0-9a-fA-F]{24}$/)
IsObjectId(id) == Len(id) = IdLength /\ \A i \in 1..Len(id) : IsHexChar(CharAt(id, i))

\* a buffer as the controller reads it: its length, its first 4 and its last 6 bytes
Buf(n, h, t) == [length |-> n, head |-> h, tail |-> t]
NoBuf == Buf(0, "", "")
\* smallest buffer the controller accepts
MinPdfBytes == 1000

\* faulty variant of VerifyError: a missing %%EOF marker fails instead of warning
VerifyErrorStrictEof(pdfBuffer) ==
  IF pdfBuffer.length = 0 THEN "Le PDF genere est vide"
  ELSE IF pdfBuffer.length < MinPdfBytes THEN "Le PDF genere semble corrompu (trop petit)"
  ELSE IF pdfBuffer.head # "%PDF" THEN "Le fichier genere n'est pas un PDF valide"
  ELSE IF ~Includes(pdfBuffer.tail, "%%EOF") THEN "Le PDF genere semble corrompu (incomplet)"
  ELSE ""

\* the message of the error the verification throws, "" when it passes
VerifyError(pdfBuffer) ==
  IF pdfBuffer.length = 0 THEN "Le PDF genere est vide"
  ELSE IF pdfBuffer.length < MinPdfBytes THEN "Le PDF genere semble corrompu (trop petit)"
  ELSE IF pdfBuffer.head # "%PDF" THEN "Le fichier genere n'est pas un PDF valide"
  ELSE ""

\* !pdfEnd.includes('%%EOF')
MissingEof(pdfBuffer) == ~Includes(pdfBuffer.tail, "%%EOF")

\* faulty variant of TimeoutMessage: worded without the text the classifier looks for
TimeoutMessageReworded == "PDF generation timed out - Le serveur met trop de temps a generer le PDF"

\* the message of the error the timer rejects with
TimeoutMessage == "PDF generation timeout - Le serveur met trop de temps a generer le PDF"

\* faulty variant of Classify: the memory test placed before the timeout test
ClassifyMemoryFirst(message) ==
  IF Includes(message, "memory") \/ Includes(message, "Memory")
  THEN [status |-> 507, code |-> "INSUFFICIENT_MEMORY",
        message |-> "Memoire insuffisante pour generer le PDF. Veuillez reessayer plus tard."]
  ELSE IF Includes(message, "timeout")
  THEN [status |-> 504, code |-> "PDF_TIMEOUT",
        message |-> "La generation du PDF prend trop de temps. Veuillez reessayer."]
  ELSE IF Includes(message, "browser") \/ Includes(message, "puppeteer")
  THEN [status |-> 503, code |-> "PDF_SERVICE_UNAVAILABLE",
        message |-> "Service de generation PDF temporairement indisponible."]
  ELSE IF Includes(message, "not found")
  THEN [status |-> 404, code |-> "INVOICE_NOT_FOUND", message |-> "Facture introuvable"]
  ELSE IF Includes(message, "vide") \/ Includes(message, "corrompu")
  THEN [status |-> 422, code |-> "PDF_VALIDATION_ERROR", message |-> message]
  ELSE [status |-> 500, code |-> "PDF_GENERATION_ERROR",
        message |-> "Erreur lors de la generation du PDF"]

\* the catch block's classification of error.message
Classify(message) ==
  IF Includes(message, "timeout")
  THEN [status |-> 504, code |-> "PDF_TIMEOUT",
        message |-> "La generation du PDF prend trop de temps. Veuillez reessayer."]
  ELSE IF Includes(message, "memory") \/ Includes(message, "Memory")
  THEN [status |-> 507, code |-> "INSUFFICIENT_MEMORY",
        message |-> "Memoire insuffisante pour generer le PDF. Veuillez reessayer plus tard."]
  ELSE IF Includes(message, "browser") \/ Includes(message, "puppeteer")
  THEN [status |-> 503, code |-> "PDF_SERVICE_UNAVAILABLE",
        message |-> "Service de generation PDF temporairement indisponible."]
  ELSE IF Includes(message, "not found")
  THEN [status |-> 404, code |-> "INVOICE_NOT_FOUND", message |-> "Facture introuvable"]
  ELSE IF Includes(message, "vide") \/ Includes(message, "corrompu")
  THEN [status |-> 422, code |-> "PDF_VALIDATION_ERROR", message |-> message]
  ELSE [status |-> 500, code |-> "PDF_GENERATION_ERROR",
        message |-> "Erreur lors de la generation du PDF"]

\* a JSON error body; timestamp tells whether the body carries one
JsonResponse(status, code, message, timestamp) ==
  [kind |-> "json", status |-> status, code |-> code, message |-> message,
   timestamp |-> timestamp, buffer |-> NoBuf]
\* res.send(pdfBuffer) under the PDF headers
PdfResponse(pdfBuffer) ==
  [kind |-> "pdf", status |-> 200, code |-> "", message |-> "", timestamp |-> FALSE,
   buffer |-> pdfBuffer]
\* the response of the catch block
CatchResponse(message) ==
  LET c == Classify(message) IN JsonResponse(c.status, c.code, c.message, TRUE)

\* what Promise.race settles with
Resolved(buf) == [kind |-> "resolve", buf |-> buf, msg |-> ""]
Rejected(msg) == [kind |-> "reject", buf |-> NoBuf, msg |-> msg]
Pending == [kind |-> "pending", buf |-> NoBuf, msg |-> ""]
NoRender == [pc |-> "none", outcome |-> Pending]

\* faulty variant of RaceResponse: a resolved buffer is sent without the checks of
\* lines 142-155
RaceResponseNoVerify(outcome) ==
  IF outcome.kind = "reject" THEN CatchResponse(outcome.msg)
  ELSE PdfResponse(outcome.buf)

\* the response the handler sends once the race has settled with outcome
RaceResponse(outcome) ==
  IF outcome.kind = "reject" THEN CatchResponse(outcome.msg)
  ELSE IF VerifyError(outcome.buf) # "" THEN CatchResponse(VerifyError(outcome.buf))
  ELSE PdfResponse(outcome.buf)

\* the steps the handler passes once the race has settled with outcome
RaceTrace(outcome) ==
  IF outcome.kind = "reject" THEN <<"Failed">>
  ELSE IF VerifyError(outcome.buf) # "" THEN <<"Verifying", "Failed">>
  ELSE <<"Verifying", "Sending">>

\* generateInvoicePDF wraps every failure in one message
WrapError(msg) == "Erreur lors de la generation du PDF: " \o msg

\* identifiers of PDF requests
PdfIds ==
  { MkId(1), "ffffffffffffffffffffffff", "ABCDEF0123456789abcdef01", "not-an-id",
    "00000000000000000000001", "0000000000000000000000001", "00000000000000000000000g" }
\* buffers page.pdf() can resolve with
PdfBuffers ==
  {NoBuf} \cup {Buf(n, h, t) : n \in {500, 999, 1000, 2048}, h \in {"%PDF", "<htm"},
                               t \in {"%%EOF\n", "endobj"}}
\* failures of the rendering engine, by the step that raises them
StepErrors(step) ==
  CASE step = "prepare" -> {"Cannot find package 'puppeteer'"}
    [] step = "launch" -> {"Failed to launch the browser process!", "spawn ENOMEM"}
    [] step = "newPage" -> {"Protocol error (Target.createTarget): Target closed"}
    [] step = "setViewport" -> {"Protocol error (Emulation.setDeviceMetricsOverride): Session closed"}
    [] step = "setContent" -> {"Navigation timeout of 30000 ms exceeded",
                               "amount.toFixed is not a function"}
    [] step = "pdf" -> {"Protocol error (Page.printToPDF): Printing failed",
                        "Protocol error (Page.printToPDF): Not enough memory"}
    [] OTHER -> {}
\* the step after each step of generateInvoicePDF's try block
NextStep(step) ==
  CASE step = "prepare" -> "launch"
    [] step = "launch" -> "newPage"
    [] step = "newPage" -> "setViewport"
    [] step = "setViewport" -> "setContent"
    [] step = "setContent" -> "pdf"
    [] OTHER -> "closing"
RenderSteps == {"prepare", "launch", "newPage", "setViewport", "setContent", "pdf"}

\* an invoice the store holds when a PDF is asked for
StoredInvoice ==
  Merge(CreateDoc([items |-> <<Item(1500)>>], NextInvoiceNumber(NoInvoice),
                  calculateInvoiceTotals([items |-> <<Item(1500)>>]).totals),
        [_id |-> MkId(1)])

\* no classification made yet
NoClass == [status |-> 0, code |-> "", message |-> ""]

\* the state before any request, with the store holding st, the calculator given body
\* and the classifier given text
Start(st, body, text) ==
  /\ calcIn = body
  /\ calcOut = [ran |-> FALSE, res |-> NoResult]
  /\ errText = text
  /\ errClass = NoClass
  /\ store = st
  /\ reqs = [r \in Reqs |-> Idle]
  /\ issued = << >>
  /\ lastOp = NoOp
  /\ hist = [NoHist EXCEPT !.ids = Len(st)]
  /\ pdfPc = "idle"
  /\ pdfId = ""
  /\ pdfInvoice = NoInvoice
  /\ responses = << >>
  /\ storeReads = 0
  /\ escaped = FALSE
  /\ timer = "off"
  /\ render = NoRender
  /\ browser = "none"
  /\ warned = FALSE
  /\ pdfTrace = << >>

PdfInit == \E st \in {<< >>, <<StoredInvoice>>} : Start(st, NoCalcIn, "")

\* GET /:id/pdf up to the call of Invoice.findById: the identifier's format is checked
PdfRequest(id) ==
  /\ pdfPc = "idle"
  /\ pdfId' = id
  /\ IF ~IsObjectId(id)
     THEN /\ responses' = Append(responses,
                 JsonResponse(400, "INVALID_ID_FORMAT", "Format d'ID de facture invalide", FALSE))
          /\ pdfPc' = "done"
          /\ pdfTrace' = <<"Validating", "Failed">>
          /\ UNCHANGED storeReads
     ELSE /\ pdfPc' = "loading"
          /\ storeReads' = storeReads + 1
          /\ pdfTrace' = <<"Validating", "Loading">>
          /\ UNCHANGED responses
  /\ UNCHANGED <<pdfInvoice, escaped, timer, render, browser, warned, calcVars, storeVars>>

\* the store answers findById: 404 when absent; otherwise the timer is set and
\* generateInvoicePDF is called, and the handler awaits their race
PdfLoaded ==
  /\ pdfPc = "loading"
  /\ LET invoice == findById(pdfId)
     IN  IF invoice = NoInvoice
         THEN /\ responses' = Append(responses,
                     JsonResponse(404, "INVOICE_NOT_FOUND", "Facture introuvable", FALSE))
              /\ pdfPc' = "done"
              /\ pdfTrace' = Append(pdfTrace, "Failed")
              /\ UNCHANGED <<pdfInvoice, timer, render>>
         ELSE /\ pdfInvoice' = invoice
              /\ timer' = "armed"
              /\ render' = [pc |-> "prepare", outcome |-> Pending]
              /\ pdfPc' = "racing"
              /\ pdfTrace' = Append(pdfTrace, "Rendering")
              /\ UNCHANGED responses
  /\ UNCHANGED <<pdfId, storeReads, escaped, browser, warned, calcVars, storeVars>>

\* the store read fails: the rejection leaves the handler through handleAsyncErrors
PdfLoadFailed ==
  /\ pdfPc = "loading"
  /\ escaped' = TRUE
  /\ pdfPc' = "done"
  /\ pdfTrace' = Append(pdfTrace, "Failed")
  /\ UNCHANGED <<pdfId, pdfInvoice, responses, storeReads, timer, render, browser, warned,
                 calcVars, storeVars>>

\* the handler resumes after the race settled with outcome: lines 138-234
HandlerResume(outcome) ==
  /\ responses' = Append(responses, RaceResponse(outcome))
  /\ warned' = (outcome.kind = "resolve" /\ VerifyError(outcome.buf) = "" /\ MissingEof(outcome.buf))
  /\ pdfTrace' = pdfTrace \o RaceTrace(outcome)
  /\ pdfPc' = "done"

\* faulty variant of RenderSettles: the handler resumes on every settlement, the race
\* already lost included
RenderSettlesAlways(outcome) == HandlerResume(outcome)

\* the promise of generateInvoicePDF settles: the handler resumes if it still awaits the race
RenderSettles(outcome) ==
  IF pdfPc = "racing"
  THEN HandlerResume(outcome)
  ELSE UNCHANGED <<responses, warned, pdfTrace, pdfPc>>

\* the 120000 ms timer fires (it is never cleared): timeoutPromise rejects
TimerFire ==
  /\ timer = "armed"
  /\ timer' = "fired"
  /\ IF pdfPc = "racing"
     THEN HandlerResume(Rejected(TimeoutMessage))
     ELSE UNCHANGED <<responses, warned, pdfTrace, pdfPc>>
  /\ UNCHANGED <<pdfId, pdfInvoice, storeReads, escaped, render, browser, calcVars, storeVars>>

\* a step of generateInvoicePDF's try block succeeds; launch opens the browser
RenderStepOk ==
  /\ render.pc \in RenderSteps \ {"pdf"}
  /\ render' = [render EXCEPT !.pc = NextStep(render.pc)]
  /\ browser' = IF render.pc = "launch" THEN "open" ELSE browser
  /\ UNCHANGED <<pdfPc, pdfId, pdfInvoice, responses, storeReads, escaped, timer, warned,
                 pdfTrace, calcVars, storeVars>>

\* page.pdf() resolves: return pdf, then the finally block
RenderPdfOk(buf) ==
  /\ render.pc = "pdf"
  /\ render' = [pc |-> "closing", outcome |-> Resolved(buf)]
  /\ UNCHANGED <<pdfPc, pdfId, pdfInvoice, responses, storeReads, escaped, timer, browser,
                 warned, pdfTrace, calcVars, storeVars>>

\* faulty variant of AfterFailure: no finally block, the browser is closed on the
\* success path only
AfterFailureNoClose(msg) ==
  /\ render' = [pc |-> "settled", outcome |-> Rejected(WrapError(msg))]
  /\ RenderSettles(Rejected(WrapError(msg)))

\* the finally block of generateInvoicePDF after a failure: with a browser it awaits
\* browser.close(), without one the promise settles at once
AfterFailure(msg) ==
  IF browser = "open"
  THEN /\ render' = [pc |-> "closing", outcome |-> Rejected(WrapError(msg))]
       /\ UNCHANGED <<responses, warned, pdfTrace, pdfPc>>
  ELSE /\ render' = [pc |-> "settled", outcome |-> Rejected(WrapError(msg))]
       /\ RenderSettles(Rejected(WrapError(msg)))

\* a step of the try block throws: catch wraps the error, then the finally block
RenderStepFail(msg) ==
  /\ render.pc \in RenderSteps
  /\ msg \in StepErrors(render.pc)
  /\ AfterFailure(msg)
  /\ UNCHANGED <<pdfId, pdfInvoice, storeReads, escaped, timer, browser, calcVars, storeVars>>

\* browser.close() completes and the promise of generateInvoicePDF settles
RenderClose ==
  /\ render.pc = "closing"
  /\ browser' = "closed"
  /\ render' = [render EXCEPT !.pc = "settled"]
  /\ RenderSettles(render.outcome)
  /\ UNCHANGED <<pdfId, pdfInvoice, storeReads, escaped, timer, calcVars, storeVars>>

RenderNext ==
  \/ RenderStepOk
  \/ \E buf \in PdfBuffers : RenderPdfOk(buf)
  \/ \E step \in RenderSteps : \E msg \in StepErrors(step) : RenderStepFail(msg)
  \/ RenderClose

PdfNext ==
  \/ \E id \in PdfIds : PdfRequest(id)
  \/ PdfLoaded
  \/ PdfLoadFailed
  \/ TimerFire
  \/ RenderNext

SpecPdf == PdfInit /\ [][PdfNext]_vars

\* every step of the render settles (the engine bounds its own calls) and timers fire
SpecPdfLive == SpecPdf /\ WF_vars(RenderNext) /\ WF_vars(TimerFire)

StoreNext ==
  \/ \E r \in Reqs, body \in CreateBodies : CreateRead(r, body)
  \/ \E r \in Reqs : CreateSave(r)
  \/ \E id \in RequestIds, body \in UpdateBodies : Update(id, body)
  \/ \E id \in RequestIds : Delete(id)

StoreInit == Start(<< >>, NoCalcIn, "")

SpecStore == StoreInit /\ [][StoreNext]_vars

\* ------------------------------------------------------------ calculator runs
\* item total prices a JSON body can carry (amounts are multiples of 0.1)
PriceValues == {Num(0), Num(1500), Num(10000), Str("abc"), Str("5"), Null}
ItemValues == {<< >>} \cup {[totalPrice |-> p] : p \in PriceValues}
ItemLists == UNION {[1..n -> ItemValues] : n \in 0..MaxItems}
TimbreValues == {Num(0), Num(600)}
RemiseValues == {Num(0), Num(2000)}

\* request bodies handed to the calculator
CalcBodies ==
  {[items |-> it] : it \in ItemLists}
  \cup {[items |-> it, timbre |-> t] : it \in ItemLists, t \in TimbreValues}
  \cup {[items |-> it, totalRemise |-> r] : it \in ItemLists, r \in RemiseValues}
  \cup {[items |-> it, timbre |-> t, totalRemise |-> r] :
          it \in ItemLists, t \in TimbreValues, r \in RemiseValues}

CalcInit == \E body \in CalcBodies : Start(<< >>, body, "")

\* one call of calculateInvoiceTotals(req.body)
CalcApply ==
  /\ ~calcOut.ran
  /\ calcOut' = [ran |-> TRUE, res |-> calculateInvoiceTotals(calcIn)]
  /\ UNCHANGED <<calcIn, errText, errClass, storeVars, pdfVars>>

SpecCalc == CalcInit /\ [][CalcApply]_vars

\* ------------------------------------------------------------ classifier runs
\* pieces of error text: the texts the classifier looks for, and one it does not
Fragments ==
  {"timeout", "memory", "Memory", "browser", "puppeteer", "not found", "vide", "corrompu",
   "failed"}

RECURSIVE JoinWords(_)
\* the words of ws separated by blanks
JoinWords(ws) ==
  IF Len(ws) = 0 THEN ""
  ELSE IF Len(ws) = 1 THEN ws[1]
  ELSE ws[1] \o " " \o JoinWords(Tail(ws))

\* error texts made of up to MaxWords different fragments, in every order
ErrorTexts ==
  {JoinWords(ws) : ws \in UNION {{f \in [1..n -> Fragments] :
                                      \A i \in 1..n : \A j \in 1..n : f[i] = f[j] => i = j} :
                                   n \in 0..MaxWords}}

ClassifyInit == \E text \in ErrorTexts : Start(<< >>, NoCalcIn, text)

\* the catch block classifies error.message
ClassifyApply ==
  /\ errClass = NoClass
  /\ errClass' = Classify(errText)
  /\ UNCHANGED <<calcIn, calcOut, errText, storeVars, pdfVars>>

SpecClassify == ClassifyInit /\ [][ClassifyApply]_vars

\* ============================================================ claims
\* an invoice number of the expected shape: BCC followed by decimal digits only
IsSeqNumber(x) == Len(x) > 3 /\ SubSeq(x, 1, 3) = "BCC" /\ AllDigits(SubSeq(x, 4, Len(x)))
\* the integer an invoice number of the expected shape carries
NumberValue(num) == DigitsToNat(SubSeq(num.s, 4, Len(num.s)))
\* the integers of the numbers issued so far
IssuedValues == {NumberValue(issued[i]) : i \in 1..Len(issued)}

\* C1: when only creation requests ran (overlapping or not) and all of them have
\* completed, the saved invoices carry pairwise distinct, consecutive numbers
C1_DistinctConsecutive ==
  (hist.updates = 0 /\ hist.deletes = 0 /\ InFlight = {}) =>
    /\ \A i \in 1..Len(issued) : IsSeqNumber(issued[i].s)
    /\ Cardinality(IssuedValues) = Len(issued)
    /\ \A v \in IssuedValues : (v - 1 \in IssuedValues) \/ (\A w \in IssuedValues : v <= w)

\* C2: over non-overlapping creations and deletions from an empty store, every
\* creation gets a number strictly greater than every number issued before it
C2_NeverReused ==
  (~hist.overlap /\ hist.updates = 0) =>
    \A i \in 1..Len(issued) : \A j \in 1..Len(issued) :
       i < j => NumberValue(issued[i]) < NumberValue(issued[j])

\* C3: the invoice fetched after a successful update has the invoiceNumber it had before
C3_UpdateKeepsNumber ==
  (lastOp.kind = "update" /\ lastOp.status = 200) =>
    findById(lastOp.id).invoiceNumber = lastOp.before.invoiceNumber

\* C4: the invoice fetched after a successful update carries, for the five total
\* fields, the calculator's result on the update's body, whatever the body supplied
C4_UpdateRecomputesTotals ==
  (lastOp.kind = "update" /\ lastOp.status = 200) =>
    \A k \in TotalKeys :
       findById(lastOp.id)[k] = calculateInvoiceTotals(lastOp.body).totals[k]

\* C4 witness: an update whose body supplied a totalHT other than the computed one
C4_Witness ==
  /\ lastOp.kind = "update" /\ lastOp.status = 200
  /\ "totalHT" \in DOMAIN lastOp.body
  /\ "totalTTC" \in DOMAIN lastOp.body
  /\ lastOp.body.totalHT # findById(lastOp.id).totalHT
  /\ findById(lastOp.id).totalHT = Num(10000)

\* digits beyond the third are never padding
MinimalPad(x) == Len(x) >= 6 /\ (Len(x) > 6 => CharAt(x, 4) # "0")
\* the number a creation must compute from the latest invoice it read
ExpectedNumber(last, num) ==
  /\ last = NoInvoice => num = Str("BCC001")
  /\ (last # NoInvoice /\ IsSeqNumber(last.invoiceNumber.s)) =>
       /\ IsSeqNumber(num.s)
       /\ NumberValue(num) = NumberValue(last.invoiceNumber) + 1
       /\ MinimalPad(num.s)

\* C5: a creation that read no invoice assigns BCC001; one that read a latest invoice
\* numbered BCC<N> assigns BCC<N+1>, zero-padded to at least 3 digits
C5_NextNumber ==
  /\ \A r \in InFlight : ExpectedNumber(reqs[r].lastInvoice, reqs[r].doc.invoiceNumber)
  /\ lastOp.kind = "create" =>
       /\ ExpectedNumber(lastOp.before, lastOp.body.invoiceNumber)
       /\ store[Len(store)].invoiceNumber = lastOp.body.invoiceNumber

\* C5 witness: a creation that read BCC999 saved BCC1000
C5_Witness ==
  /\ lastOp.kind = "create"
  /\ lastOp.before # NoInvoice
  /\ lastOp.before.invoiceNumber = Str("BCC999")
  /\ store[Len(store)].invoiceNumber = Str("BCC1000")

RECURSIVE SumPrices(_)
\* the sum of the items' totalPrice, a missing or non-numeric one counting 0
SumPrices(items) ==
  IF Len(items) = 0 THEN 0
  ELSE LET p == Field(Head(items), "totalPrice")
       IN  (IF p.t = "number" THEN p.v ELSE 0) + SumPrices(Tail(items))

\* C6: the calculator never fails, totalHT is the sum of the numeric item prices,
\* totalTVA is 19% of it and totalTTC is totalHT + totalTVA + timbre - totalRemise
C6_CalculatorTotals ==
  calcOut.ran =>
    /\ calcOut.res.ok
    /\ LET t == calcOut.res.totals
           ht == SumPrices(calcIn.items)
           tva == (ht * 19) \div 100
       IN  /\ t.totalHT = Num(ht)
           /\ t.totalTVA = Num(tva)
           /\ t.totalTTC = Num(ht + tva + t.timbre.v - t.totalRemise.v)

\* exactly 24 characters, each a hexadecimal digit
C7_Hex24(id) ==
  /\ Len(id) = 24
  /\ \A i \in 1..Len(id) :
        CharAt(id, i) \in {"0", "1", "2", "3", "4", "5", "6", "7", "8", "9", "a", "b", "c",
                           "d", "e", "f", "A", "B", "C", "D", "E", "F"}

\* C7: an identifier that is not 24 hexadecimal characters is answered 400 without a
\* store read; one that is but matches no invoice is answered 404 without a render
C7_IdValidation ==
  /\ (pdfPc # "idle" /\ ~C7_Hex24(pdfId)) =>
       /\ Len(responses) = 1 /\ responses[1].status = 400
       /\ storeReads = 0
  /\ (pdfPc = "done" /\ C7_Hex24(pdfId) /\ findById(pdfId) = NoInvoice /\ ~escaped) =>
       /\ Len(responses) = 1 /\ responses[1].status = 404
       /\ render.pc = "none" /\ browser = "none"

\* C7 witness: a 25-character hexadecimal identifier was answered 400 with no store read
C7_Witness ==
  /\ pdfPc = "done"
  /\ pdfId = "0000000000000000000000001"
  /\ Len(responses) = 1 /\ responses[1].status = 400 /\ responses[1].code = "INVALID_ID_FORMAT"
  /\ storeReads = 0

\* C8: when the render settled with a buffer while the timer was still pending, the
\* buffer was sent as the PDF exactly when it is non-empty, at least 1000 bytes long and
\* starts with %PDF, whatever its last bytes are
C8_BufferVerification ==
  (render.pc = "settled" /\ render.outcome.kind = "resolve" /\ timer = "armed") =>
    LET buf == render.outcome.buf
    IN  /\ Len(responses) = 1
        /\ (responses[1].kind = "pdf" /\ responses[1].buffer = buf)
             <=> (buf.length > 0 /\ buf.length >= 1000 /\ buf.head = "%PDF")

\* C8 witness: a 1000-byte %PDF buffer without the %%EOF marker was sent, with a warning
C8_Witness ==
  /\ render.pc = "settled" /\ render.outcome.kind = "resolve" /\ timer = "armed"
  /\ render.outcome.buf = Buf(1000, "%PDF", "endobj")
  /\ Len(responses) = 1 /\ responses[1].kind = "pdf"
  /\ warned

\* C9: once the timer has fired with the render not yet settled, the response 504
\* PDF_TIMEOUT has been sent, the render still being unsettled
C9_TimeoutResponse ==
  (timer = "fired" /\ render.pc # "settled") =>
    /\ Len(responses) = 1
    /\ responses[1].status = 504
    /\ responses[1].code = "PDF_TIMEOUT"

\* C9 witness: the timer fired while the content was loading and 504 was answered
C9_Witness ==
  /\ timer = "fired" /\ render.pc = "setContent" /\ browser = "open"
  /\ Len(responses) = 1 /\ responses[1].status = 504 /\ responses[1].code = "PDF_TIMEOUT"

\* C10: every launched rendering-engine instance is eventually closed
C10_BrowserClosed == (browser = "open") ~> (browser = "closed")

\* C10 witness: the instance of a render abandoned by the timer has been closed
C10_Witness ==
  /\ browser = "closed"
  /\ timer = "fired"
  /\ Len(responses) = 1 /\ responses[1].code = "PDF_TIMEOUT"
  /\ render.pc = "settled"

\* the classes in the order the spec gives them: the texts looked for, status and code
C11_Classes ==
  << [keys |-> {"timeout"}, status |-> 504, code |-> "PDF_TIMEOUT"],
     [keys |-> {"memory", "Memory"}, status |-> 507, code |-> "INSUFFICIENT_MEMORY"],
     [keys |-> {"browser", "puppeteer"}, status |-> 503, code |-> "PDF_SERVICE_UNAVAILABLE"],
     [keys |-> {"not found"}, status |-> 404, code |-> "INVOICE_NOT_FOUND"],
     [keys |-> {"vide", "corrompu"}, status |-> 422, code |-> "PDF_VALIDATION_ERROR"] >>
\* the classes the text matches
C11_Matching(text) ==
  {i \in 1..Len(C11_Classes) : \E k \in C11_Classes[i].keys : Includes(text, k)}

\* C11: the classification of an error text is that of the earliest class it matches
\* in the order timeout, memory, browser/puppeteer, not found, vide/corrompu; 500 if none
C11_FirstMatchWins ==
  errClass # NoClass =>
    LET m == C11_Matching(errText)
    IN  IF m = {}
        THEN errClass.status = 500 /\ errClass.code = "PDF_GENERATION_ERROR"
        ELSE LET i == CHOOSE x \in m : \A y \in m : x <= y
             IN  /\ errClass.status = C11_Classes[i].status
                 /\ errClass.code = C11_Classes[i].code

\* C11 witness: a text holding both memory and timeout is classified 504 PDF_TIMEOUT
C11_Witness ==
  /\ errText = "memory timeout"
  /\ errClass.status = 504 /\ errClass.code = "PDF_TIMEOUT"

\* the request has failed: the last step of its trace is Failed
RequestFailed == Len(pdfTrace) > 0 /\ pdfTrace[Len(pdfTrace)] = "Failed"

\* C12: every failure of a PDF request is answered by the handler with a JSON body
\* carrying a code, a message and a timestamp, and nothing is passed to the framework
C12_HandlerAnswersAll ==
  RequestFailed =>
    /\ ~escaped
    /\ Len(responses) = 1
    /\ responses[1].kind = "json"
    /\ responses[1].code # "" /\ responses[1].message # ""
    /\ responses[1].timestamp

\* the steps of a request in the order the spec gives them
C13_Order == <<"Validating", "Loading", "Rendering", "Verifying", "Sending">>
\* the steps passed, without a final Failed
C13_Passed == IF RequestFailed THEN SubSeq(pdfTrace, 1, Len(pdfTrace) - 1) ELSE pdfTrace
\* a buffer that passes verification
C13_Verified(buf) == buf.length > 0 /\ buf.length >= 1000 /\ buf.head = "%PDF"

C13_StateOk ==
  /\ Len(C13_Passed) <= Len(C13_Order)
  /\ C13_Passed = SubSeq(C13_Order, 1, Len(C13_Passed))
  /\ RequestFailed => Len(C13_Passed) >= 1
  /\ render.pc # "none" =>
       /\ C7_Hex24(pdfId)
       /\ pdfInvoice # NoInvoice /\ pdfInvoice = findById(pdfId)
       /\ Len(pdfTrace) >= 3 /\ pdfTrace[3] = "Rendering"
  /\ \A i \in 1..Len(responses) :
       responses[i].kind = "pdf" =>
         /\ pdfTrace = C13_Order
         /\ C13_Verified(responses[i].buffer)
         /\ render.outcome = Resolved(responses[i].buffer)
  /\ RequestFailed =>
       /\ pdfPc = "done"
       /\ \A i \in 1..Len(responses) : responses[i].kind = "json"

C13_StepOk ==
  /\ pdfTrace' # pdfTrace =>
       /\ ~RequestFailed
       /\ Len(pdfTrace') > Len(pdfTrace)
       /\ SubSeq(pdfTrace', 1, Len(pdfTrace)) = pdfTrace
  /\ RequestFailed => /\ responses' = responses
                      /\ warned' = warned
                      /\ pdfPc' = pdfPc

\* C13: a request passes Validating, Loading, Rendering, Verifying, Sending in that
\* order, each at most once, and Failed is last: the render starts only for a valid
\* identifier and a loaded invoice, a PDF is sent only after its buffer passed
\* verification, and after Failed no step runs and nothing more is sent
C13_StateMachine == [](C13_StateOk) /\ [][C13_StepOk]_vars

\* C13 witness: a request passed all five steps and sent the PDF
C13_Witness ==
  /\ pdfTrace = C13_Order
  /\ Len(responses) = 1 /\ responses[1].kind = "pdf"
  /\ render.pc = "settled"

\* C14: every buffer rejected by verification (empty, under 1000 bytes, or not
\* starting with %PDF) is answered 422 PDF_VALIDATION_ERROR
C14_RejectedBuffer422 ==
  (Len(pdfTrace) >= 4 /\ pdfTrace[4] = "Verifying" /\ ~C13_Verified(render.outcome.buf)) =>
    /\ Len(responses) = 1
    /\ responses[1].status = 422 /\ responses[1].code = "PDF_VALIDATION_ERROR"

\* C15: the returned timbre is the supplied one whenever one is supplied (0 included)
\* and 0.1 otherwise, the returned totalRemise is the supplied one and 0 otherwise,
\* and totalTTC is computed from these returned values
C15_SuppliedValuesKept ==
  (calcOut.ran /\ calcOut.res.ok) =>
    LET t == calcOut.res.totals
    IN  /\ t.timbre = (IF "timbre" \in DOMAIN calcIn THEN calcIn.timbre
                                                     ELSE Num(Scale \div 10))
        /\ t.totalRemise = (IF "totalRemise" \in DOMAIN calcIn THEN calcIn.totalRemise
                                                                ELSE Num(0))
        /\ t.totalTTC = JsSub(JsAdd(JsAdd(t.totalHT, t.totalTVA), t.timbre), t.totalRemise)

\* C16: every stored invoice's invoiceNumber is BCC followed by at least 3 decimal digits
C16_StoredNumbersWellFormed ==
  \A i \in 1..Len(store) :
     /\ store[i].invoiceNumber.t = "string"
     /\ IsSeqNumber(store[i].invoiceNumber.s)
     /\ Len(store[i].invoiceNumber.s) >= 6

\* C17: the invoice saved by a creation holds the number generated from the latest
\* invoice read and the calculator's totals on the request body, whatever the body held
C17_ServerValuesWin ==
  lastOp.kind = "create" =>
    LET saved == store[Len(store)]
    IN  /\ saved.invoiceNumber = NextInvoiceNumber(lastOp.before)
        /\ \A k \in TotalKeys : saved[k] = calculateInvoiceTotals(lastOp.req).totals[k]

\* C17 witness: a body carrying invoiceNumber BCC777 and totalHT 999 was saved first in
\* an empty store as BCC001 with the computed totalHT 10
C17_Witness ==
  /\ lastOp.kind = "create"
  /\ lastOp.before = NoInvoice
  /\ "invoiceNumber" \in DOMAIN lastOp.req /\ lastOp.req.invoiceNumber = Str("BCC777")
  /\ "totalHT" \in DOMAIN lastOp.req /\ lastOp.req.totalHT = Num(999000)
  /\ store[Len(store)].invoiceNumber = Str("BCC001")
  /\ store[Len(store)].totalHT = Num(10000)

\* C18: a response PDF_TIMEOUT is sent only when the 120000 ms timer has fired
C18_TimeoutOnlyFromTimer ==
  \A i \in 1..Len(responses) : responses[i].code = "PDF_TIMEOUT" => timer = "fired"

\* C19: a PDF request sends at most one response in every state and exactly one once
\* the handler has finished, however render settlement and timer firing interleave
C19_ExactlyOneResponse ==
  /\ Len(responses) <= 1
  /\ (pdfPc = "done" /\ ~escaped) => Len(responses) = 1
  /\ (timer = "fired" \/ render.pc = "settled") => Len(responses) = 1

\* C19 witness: the render settled with a buffer after the timer had fired, and the
\* only response is the timeout's
C19_Witness ==
  /\ timer = "fired"
  /\ render.pc = "settled" /\ render.outcome.kind = "resolve"
  /\ Len(responses) = 1 /\ responses[1].code = "PDF_TIMEOUT"
====
